---- MODULE Spec2Model ----
(***************************************************************************)
(* State-machine model of the chq-backend course marketplace: the Course   *)
(* aggregate (embedded reviews and enrollments, derived rating and         *)
(* enrollment counters), review moderation, voting, enrollment, shortlist  *)
(* counters, institution activation and the course read endpoints.         *)
(*                                                                         *)
(* Ratings are JavaScript numbers in the source; the model keeps them as   *)
(* exact reduced fractions [num, den].                                     *)
(***************************************************************************)
EXTENDS Integers, Sequences, FiniteSets, TLC

\* ------------------------------------------------------------------ bounds
MaxReviews == 2
MaxCapacity == 1
MaxShortlisted == 3
MaxTally == 2
MaxClock == 3

\* ------------------------------------------------------------- input sets
Aspirants == {"u1", "u2"}
Institutions == {"i1", "i2"}
Admins == {"a1"}
CourseIds == {"c1", "c2"}
UserIds == Aspirants \cup Institutions \cup Admins

RoleOf(id) ==
  IF id \in Aspirants THEN "aspirant"
  ELSE IF id \in Institutions THEN "institution" ELSE "admin"

\* rating triples <<courseRating, instituteRating, facultyRating>> of a body
RatingInputs == {<<5, 4, 3>>, <<1, 2, 3>>, <<0, 3, 3>>, <<6, 5, 5>>}
Votes == {"helpful", "not_helpful"}
ModerationActions == {"approve", "reject", "archive", "hide"}
NoReason == "undefined"
ReasonInputs == {NoReason, "spam"}
NoUser == "none"
\* calendar days a request can arrive on or a course date can be set to
Days == {1, 2, 3}
\* a date field left unset
NoDate == 0

\* ------------------------------------------------------ schema enumerations
ReviewStatusEnum == {"pending", "approved", "rejected"}
CourseStatusEnum == {"draft", "published", "archived", "cancelled", "suspended"}
PromotionEnum == {"none", "basic", "premium", "featured"}
MinRating == 1
MaxRating == 5

\* ------------------------------------------------------------- arithmetic
RECURSIVE GCD(_, _)
GCD(a, b) == IF b = 0 THEN a ELSE GCD(b, a % b)

Rat(n, d) == LET g == GCD(n, d) IN [num |-> n \div g, den |-> d \div g]
RatZero == [num |-> 0, den |-> 1]
RatAdd(a, b) == Rat(a.num * b.den + b.num * a.den, a.den * b.den)
RatDivInt(a, k) == Rat(a.num, a.den * k)

RECURSIVE SumSeq(_, _)
SumSeq(s, field) ==
  IF s = <<>> THEN 0 ELSE Head(s)[field] + SumSeq(Tail(s), field)

\* ------------------------------------------------------------------- state
VARIABLES
  users,       \* User collection: id -> [role, isVerified, isActive]
  courses,     \* Course collection: id -> course document
  shortlists,  \* Shortlist collection: user id -> sequence of course ids
  reqs,        \* requests in flight: request id -> [pc, user, course, doc]
  otpStore,    \* authController's otpStore: email -> [otp, expiresAt, verified]
  clock        \* Date.now() in units of five minutes

vars == <<users, courses, shortlists, reqs, otpStore, clock>>

\* What a handler produces: the HTTP response and the collections it leaves.
Response(status, kind) == [status |-> status, kind |-> kind]

Reply(status, kind) ==
  [res |-> Response(status, kind),
   users |-> users, courses |-> courses, shortlists |-> shortlists]

ReplyCourses(status, kind, cs) == [Reply(status, kind) EXCEPT !.courses = cs]

Commit(out) ==
  /\ users' = out.users
  /\ courses' = out.courses
  /\ shortlists' = out.shortlists
  /\ UNCHANGED <<reqs, otpStore, clock>>

\* --------------------------------------------------------- Course model
IsApproved(r) == r.verificationStatus = "approved"
\* the aggregate taken over every review, whatever its moderation status
EveryReview(reviews) == reviews

ApprovedReviews(reviews) == SelectSeq(reviews, IsApproved)

CompletedEnrollments(enrollments) ==
  SelectSeq(enrollments, LAMBDA e : e.paymentStatus = "completed")

\* courseSchema.pre('save'): recompute the rating aggregate and the
\* enrollment counter from the embedded arrays
PreSave(doc) ==
  LET approvedReviews == ApprovedReviews(doc.reviews)
      n == Len(approvedReviews)
      c == Rat(SumSeq(approvedReviews, "courseRating"), n)
      i == Rat(SumSeq(approvedReviews, "instituteRating"), n)
      f == Rat(SumSeq(approvedReviews, "facultyRating"), n)
      rated ==
        IF n > 0
        THEN [doc EXCEPT
               !.averageRating = [course |-> c, institute |-> i, faculty |-> f,
                                  overall |-> RatDivInt(RatAdd(RatAdd(c, i), f), 3)],
               !.totalReviews = n]
        ELSE [doc EXCEPT
               !.averageRating = [course |-> RatZero, institute |-> RatZero,
                                  faculty |-> RatZero, overall |-> RatZero],
               !.totalReviews = 0]
  IN [rated EXCEPT
       !.currentEnrollments = Len(CompletedEnrollments(doc.enrollments))]

\* reviewSchema validators
ValidReview(r) ==
  /\ r.user \in UserIds
  /\ r.courseRating \in MinRating..MaxRating
  /\ r.instituteRating \in MinRating..MaxRating
  /\ r.facultyRating \in MinRating..MaxRating
  /\ r.verificationStatus \in ReviewStatusEnum
  /\ \A k \in 1..Len(r.votedBy) : r.votedBy[k].vote \in Votes

\* courseSchema validators and casts, run by save() before the pre-save hook
ValidCourse(doc) ==
  /\ doc.status \in CourseStatusEnum
  /\ doc.promotionLevel \in PromotionEnum
  /\ doc.institution \in UserIds
  /\ DOMAIN doc.averageRating = {"course", "institute", "faculty", "overall"}
  /\ \A k \in 1..Len(doc.reviews) : ValidReview(doc.reviews[k])

\* document.save() of a course loaded and saved within one handler
SavedCourses(c, doc) == [courses EXCEPT ![c] = PreSave(doc)]

\* the adminAction record of a course no admin has acted on
NoAdminAction ==
  [action |-> "undefined", reason |-> "undefined", actionBy |-> NoUser,
   actionAt |-> NoDate]

\* Course.create(...)
NewCourse(inst, isPublished, maxStudents) ==
  [institution |-> inst,
   isPublished |-> isPublished,
   status |-> IF isPublished THEN "published" ELSE "draft",
   maxStudents |-> maxStudents,
   startDate |-> 2,
   enrollmentDeadline |-> NoDate,
   adminAction |-> NoAdminAction,
   promotionLevel |-> "none",
   isFeatured |-> FALSE,
   reviews |-> <<>>,
   enrollments |-> <<>>,
   averageRating |-> [course |-> RatZero, institute |-> RatZero,
                      faculty |-> RatZero, overall |-> RatZero],
   totalReviews |-> 0,
   currentEnrollments |-> 0,
   shortlisted |-> 0]

\* ------------------------------------------------------------------- Init
RequestIds == {"r1", "r2"}
IdleReq == [pc |-> "idle"]

Init ==
  /\ users = [id \in UserIds |->
                [role |-> RoleOf(id),
                 isVerified |-> (RoleOf(id) # "institution"),
                 isActive |-> TRUE]]
  /\ courses = [c \in {} |-> 0]
  /\ shortlists = [u \in {} |-> <<>>]
  /\ reqs = [r \in RequestIds |-> IdleReq]
  /\ otpStore = [e \in {} |-> 0]
  /\ clock = 0

\* ------------------------------------------------------- admin: institutions
\* PUT /api/admin/institutions/:id/verify
verifyInstitutionResult(id) ==
  IF id \notin DOMAIN users \/ users[id].role # "institution"
  THEN Reply(404, "Institution not found")
  ELSE [Reply(200, "Institution verified") EXCEPT
         !.users = [users EXCEPT ![id].isVerified = TRUE]]

verifyInstitution(id) == Commit(verifyInstitutionResult(id))

\* ------------------------------------------------------ institution: courses
\* POST /api/institution/courses
createCourseResult(inst, c, isPublished, maxStudents) ==
  IF ~users[inst].isVerified
  THEN Reply(403, "Institution not verified")
  ELSE ReplyCourses(201, "Course created",
         [x \in DOMAIN courses \cup {c} |->
            IF x = c
            THEN PreSave(NewCourse(inst, isPublished, maxStudents))
            ELSE courses[x]])

createCourse(inst, c, isPublished, maxStudents) ==
  /\ c \notin DOMAIN courses
  /\ Commit(createCourseResult(inst, c, isPublished, maxStudents))

\* ------------------------------------------------------------------ reviews
HasReviewBy(doc, u) ==
  \E k \in 1..Len(doc.reviews) : doc.reviews[k].user = u

HasCompletedEnrollment(doc, u) ==
  \E k \in 1..Len(doc.enrollments) :
    /\ doc.enrollments[k].user = u
    /\ doc.enrollments[k].paymentStatus = "completed"

NewReview(u, ratings, isEnrolled) ==
  [user |-> u,
   courseRating |-> ratings[1],
   instituteRating |-> ratings[2],
   facultyRating |-> ratings[3],
   isVerified |-> isEnrolled,
   verificationStatus |-> "pending",
   isVisible |-> FALSE,
   rejectionReason |-> NoReason,
   verifiedBy |-> NoUser,
   helpfulVotes |-> 0,
   notHelpfulVotes |-> 0,
   votedBy |-> <<>>]

\* POST /api/courses/:id/reviews
submitReviewResult(u, c, ratings) ==
  IF ratings[1] = 0 \/ ratings[2] = 0 \/ ratings[3] = 0
  THEN Reply(400, "Fields required")
  ELSE IF c \notin DOMAIN courses
  THEN Reply(404, "Course not found")
  ELSE IF HasReviewBy(courses[c], u)
  THEN Reply(400, "Already reviewed")
  ELSE LET newReview ==
             NewReview(u, ratings, HasCompletedEnrollment(courses[c], u))
           doc == [courses[c] EXCEPT !.reviews = Append(@, newReview)]
       IN IF ValidCourse(doc)
          THEN ReplyCourses(201, "Review submitted", SavedCourses(c, doc))
          ELSE Reply(500, "Server error")

submitReview(u, c, ratings) == Commit(submitReviewResult(u, c, ratings))

\* PUT /api/admin/reviews/:courseId/:reviewId/verify
Moderated(r, admin, action, rejectionReason) ==
  LET m == IF action = "approve"
           THEN [r EXCEPT !.verificationStatus = "approved",
                          !.isVisible = TRUE,
                          !.isVerified = TRUE]
           ELSE IF action = "reject"
           THEN [r EXCEPT !.verificationStatus = "rejected",
                          !.isVisible = FALSE,
                          !.isVerified = FALSE,
                          !.rejectionReason = rejectionReason]
           ELSE IF action = "archive"
           THEN [r EXCEPT !.verificationStatus = "archived",
                          !.isVisible = FALSE,
                          !.isVerified = FALSE]
           ELSE r
  IN [m EXCEPT !.verifiedBy = admin]

\* the controller's own recalculation after an approval: it assigns a number
\* to the nested averageRating path and saves a second time
Recalculated(doc) ==
  LET visibleReviews ==
        SelectSeq(doc.reviews, LAMBDA r : r.isVisible /\ r.isVerified)
  IN IF Len(visibleReviews) > 0
     THEN [doc EXCEPT
            !.averageRating = Rat(SumSeq(visibleReviews, "courseRating"),
                                  Len(visibleReviews)),
            !.totalReviews = Len(visibleReviews)]
     ELSE doc

verifyReviewResult(admin, c, reviewId, action, rejectionReason) ==
  IF c \notin DOMAIN courses
  THEN Reply(404, "Course not found")
  ELSE IF reviewId \notin 1..Len(courses[c].reviews)
  THEN Reply(404, "Review not found")
  ELSE LET doc == [courses[c] EXCEPT !.reviews[reviewId] =
                     Moderated(@, admin, action, rejectionReason)]
           saved == PreSave(doc)
           again == Recalculated(saved)
       IN IF ~ValidCourse(doc)
          THEN Reply(500, "Server error")
          ELSE IF action = "approve" /\ again # saved
          THEN IF ValidCourse(again)
               THEN ReplyCourses(200, "Review moderated", SavedCourses(c, again))
               ELSE ReplyCourses(500, "Server error",
                                 [courses EXCEPT ![c] = saved])
          ELSE ReplyCourses(200, "Review moderated",
                            [courses EXCEPT ![c] = saved])

verifyReview(admin, c, reviewId, action, rejectionReason) ==
  Commit(verifyReviewResult(admin, c, reviewId, action, rejectionReason))

\* POST /api/courses/:id/reviews/:reviewId/vote
FirstVoteOf(votedBy, u) ==
  LET hits == {k \in 1..Len(votedBy) : votedBy[k].user = u}
  IN IF hits = {} THEN 0 ELSE CHOOSE k \in hits : \A j \in hits : k <= j

\* a changed vote counted as a new one, the old tally left as it was
VotedKeepingOldTally(r, u, vote) ==
  LET e == FirstVoteOf(r.votedBy, u)
      recorded == IF e # 0
                  THEN [r EXCEPT !.votedBy[e].vote = vote]
                  ELSE [r EXCEPT !.votedBy =
                          Append(@, [user |-> u, vote |-> vote])]
  IN IF vote = "helpful"
     THEN [recorded EXCEPT !.helpfulVotes = @ + 1]
     ELSE [recorded EXCEPT !.notHelpfulVotes = @ + 1]

Voted(r, u, vote) ==
  LET e == FirstVoteOf(r.votedBy, u)
  IN IF e # 0
     THEN LET dropped ==
                IF r.votedBy[e].vote = "helpful"
                THEN [r EXCEPT !.helpfulVotes = @ - 1]
                ELSE [r EXCEPT !.notHelpfulVotes = @ - 1]
              flipped == [dropped EXCEPT !.votedBy[e].vote = vote]
          IN IF vote = "helpful"
             THEN [flipped EXCEPT !.helpfulVotes = @ + 1]
             ELSE [flipped EXCEPT !.notHelpfulVotes = @ + 1]
     ELSE LET pushed == [r EXCEPT !.votedBy =
                           Append(@, [user |-> u, vote |-> vote])]
          IN IF vote = "helpful"
             THEN [pushed EXCEPT !.helpfulVotes = @ + 1]
             ELSE [pushed EXCEPT !.notHelpfulVotes = @ + 1]

\* the vote handler without its test of the review's moderation status
voteReviewAnyStatus(u, c, reviewId, vote) ==
  IF vote \notin Votes
  THEN Reply(400, "Invalid vote")
  ELSE IF c \notin DOMAIN courses
  THEN Reply(404, "Course not found")
  ELSE IF reviewId \notin 1..Len(courses[c].reviews)
  THEN Reply(404, "Review not found")
  ELSE LET doc == [courses[c] EXCEPT !.reviews[reviewId] = Voted(@, u, vote)]
       IN IF ValidCourse(doc)
          THEN ReplyCourses(200, "Vote recorded", SavedCourses(c, doc))
          ELSE Reply(500, "Server error")

voteReviewResult(u, c, reviewId, vote) ==
  IF vote \notin Votes
  THEN Reply(400, "Invalid vote")
  ELSE IF c \notin DOMAIN courses
  THEN Reply(404, "Course not found")
  ELSE IF reviewId \notin 1..Len(courses[c].reviews)
  THEN Reply(404, "Review not found")
  ELSE IF courses[c].reviews[reviewId].verificationStatus # "approved"
  THEN Reply(400, "Cannot vote on unverified reviews")
  ELSE LET doc == [courses[c] EXCEPT !.reviews[reviewId] = Voted(@, u, vote)]
       IN IF ValidCourse(doc)
          THEN ReplyCourses(200, "Vote recorded", SavedCourses(c, doc))
          ELSE Reply(500, "Server error")

voteReview(u, c, reviewId, vote) == Commit(voteReviewResult(u, c, reviewId, vote))

\* -------------------------------------------------------------- enrollment
\* courseSchema.methods.canEnroll
canEnroll(doc, now) ==
  IF ~doc.isPublished THEN FALSE
  ELSE IF doc.status # "published" THEN FALSE
  ELSE IF doc.enrollmentDeadline # NoDate /\ now > doc.enrollmentDeadline
  THEN FALSE
  ELSE IF doc.maxStudents > 0 /\ doc.currentEnrollments >= doc.maxStudents
  THEN FALSE
  ELSE TRUE

AlreadyEnrolled(doc, u) ==
  \E k \in 1..Len(doc.enrollments) : doc.enrollments[k].user = u

NewEnrollment(u) == [user |-> u, paymentStatus |-> "completed"]

\* POST /api/aspirant/enroll/:courseId, run without interleaving
enrollResult(u, c, now) ==
  IF c \notin DOMAIN courses
  THEN Reply(404, "Course not found")
  ELSE IF ~canEnroll(courses[c], now)
  THEN Reply(400, "Not available for enrollment")
  ELSE IF AlreadyEnrolled(courses[c], u)
  THEN Reply(400, "Already enrolled")
  ELSE ReplyCourses(200, "Enrolled",
         SavedCourses(c, [courses[c] EXCEPT
                            !.enrollments = Append(@, NewEnrollment(u))]))

enroll(u, c, now) == Commit(enrollResult(u, c, now))

\* ------------------------------------------- enrollment, requests interleaved
\* document.save() of a course loaded earlier by the same request: Mongoose
\* sends the changes made to the loaded document, $push for the elements
\* appended to an array and $set for every path whose value changed (for a
\* review of the array, the changed paths reviews.k.field), and the store
\* applies them to the document as it is now
MergedVotes(stored, loaded, local) ==
  [e \in 1..Len(stored) |->
     IF e <= Len(loaded) /\ local[e] # loaded[e] THEN local[e] ELSE stored[e]]
  \o SubSeq(local, Len(loaded) + 1, Len(local))

MergedReview(stored, loaded, local) ==
  [f \in DOMAIN stored |->
     IF f = "votedBy"
     THEN MergedVotes(stored.votedBy, loaded.votedBy, local.votedBy)
     ELSE IF local[f] # loaded[f] THEN local[f] ELSE stored[f]]

DeltaSave(stored, loaded, local) ==
  LET changed(f) == IF local[f] # loaded[f] THEN local[f] ELSE stored[f]
      pushed(f) == SubSeq(local[f], Len(loaded[f]) + 1, Len(local[f]))
  IN [institution |-> changed("institution"),
      isPublished |-> changed("isPublished"),
      status |-> changed("status"),
      maxStudents |-> changed("maxStudents"),
      startDate |-> changed("startDate"),
      enrollmentDeadline |-> changed("enrollmentDeadline"),
      adminAction |-> changed("adminAction"),
      promotionLevel |-> changed("promotionLevel"),
      isFeatured |-> changed("isFeatured"),
      reviews |->
        [k \in 1..Len(stored.reviews) |->
           IF k <= Len(loaded.reviews)
           THEN MergedReview(stored.reviews[k], loaded.reviews[k], local.reviews[k])
           ELSE stored.reviews[k]]
        \o pushed("reviews"),
      enrollments |-> stored.enrollments \o pushed("enrollments"),
      averageRating |->
        [d \in DOMAIN stored.averageRating |->
           IF local.averageRating[d] # loaded.averageRating[d]
           THEN local.averageRating[d] ELSE stored.averageRating[d]],
      totalReviews |-> changed("totalReviews"),
      currentEnrollments |-> changed("currentEnrollments"),
      shortlisted |-> changed("shortlisted")]

Loaded(r) == reqs[r].pc = "loaded"

\* POST /api/aspirant/enroll/:courseId up to the resolution of findById
enrollFind(r, u, c) ==
  /\ reqs[r].pc = "idle"
  /\ c \in DOMAIN courses
  /\ reqs' = [reqs EXCEPT ![r] =
                [pc |-> "loaded", user |-> u, course |-> c, doc |-> courses[c]]]
  /\ UNCHANGED <<users, courses, shortlists, otpStore, clock>>

\* POST /api/aspirant/enroll/:courseId from the checks to the end of save()
enrollSaveResult(r, now) ==
  LET u == reqs[r].user
      c == reqs[r].course
      loaded == reqs[r].doc
      local == PreSave([loaded EXCEPT
                          !.enrollments = Append(@, NewEnrollment(u))])
  IN IF ~canEnroll(loaded, now)
     THEN Reply(400, "Not available for enrollment")
     ELSE IF AlreadyEnrolled(loaded, u)
     THEN Reply(400, "Already enrolled")
     ELSE ReplyCourses(200, "Enrolled",
            [courses EXCEPT ![c] = DeltaSave(courses[c], loaded, local)])

enrollSave(r, now) ==
  /\ Loaded(r)
  /\ courses' = enrollSaveResult(r, now).courses
  /\ reqs' = [reqs EXCEPT ![r] = IdleReq]
  /\ UNCHANGED <<users, shortlists, otpStore, clock>>

NextEnroll ==
  \/ \E i \in {"i1"} : verifyInstitution(i)
  \/ \E i \in {"i1"}, b \in BOOLEAN, m \in 0..MaxCapacity :
       createCourse(i, "c1", b, m)
  \/ \E r \in RequestIds, u \in Aspirants : enrollFind(r, u, "c1")
  \/ \E r \in RequestIds, now \in Days : enrollSave(r, now)

SpecEnroll == Init /\ [][NextEnroll]_vars

\* ------------------------------------------------ votes, requests interleaved
ReviewsBelow(c, n) == c \in DOMAIN courses => Len(courses[c].reviews) < n

\* the version key __v of a document whose arrays only ever grew by push:
\* every save that pushes to one of its arrays increments it
RECURSIVE VotePushes(_)
VotePushes(reviews) ==
  IF reviews = <<>> THEN 0
  ELSE Len(Head(reviews).votedBy) + VotePushes(Tail(reviews))

VersionKey(doc) ==
  Len(doc.reviews) + Len(doc.enrollments) + VotePushes(doc.reviews)

\* a save that writes below an element of the reviews array ($set of
\* reviews.k.field, $push to reviews.k.votedBy) carries the loaded __v in its
\* query and fails with a VersionError when the stored one has moved on
VersionConflict(stored, loaded, local) ==
  /\ \E k \in 1..Len(loaded.reviews) : local.reviews[k] # loaded.reviews[k]
  /\ VersionKey(stored) # VersionKey(loaded)

\* POST /api/courses/:id/reviews/:reviewId/vote up to the resolution of findById
voteFind(r, u, c, reviewId, vote) ==
  /\ reqs[r].pc = "idle"
  /\ c \in DOMAIN courses
  /\ reqs' = [reqs EXCEPT ![r] =
                [pc |-> "voting", user |-> u, course |-> c, doc |-> courses[c],
                 review |-> reviewId, vote |-> vote]]
  /\ UNCHANGED <<users, courses, shortlists, otpStore, clock>>

\* POST /api/courses/:id/reviews/:reviewId/vote from the checks to the end of
\* save()
voteSaveResult(r) ==
  LET u == reqs[r].user
      c == reqs[r].course
      k == reqs[r].review
      loaded == reqs[r].doc
      local == PreSave([loaded EXCEPT !.reviews[k] = Voted(@, u, reqs[r].vote)])
  IN IF k \notin 1..Len(loaded.reviews)
     THEN Reply(404, "Review not found")
     ELSE IF loaded.reviews[k].verificationStatus # "approved"
     THEN Reply(400, "Cannot vote on unverified reviews")
     ELSE IF VersionConflict(courses[c], loaded, local)
     THEN Reply(500, "Server error")
     ELSE ReplyCourses(200, "Vote recorded",
            [courses EXCEPT ![c] = DeltaSave(courses[c], loaded, local)])

voteSave(r) ==
  /\ reqs[r].pc = "voting"
  /\ courses' = voteSaveResult(r).courses
  /\ reqs' = [reqs EXCEPT ![r] = IdleReq]
  /\ UNCHANGED <<users, shortlists, otpStore, clock>>

TalliesBelow(c, n) ==
  c \in DOMAIN courses =>
    \A k \in 1..Len(courses[c].reviews) :
      /\ courses[c].reviews[k].helpfulVotes \in (0 - n)..n
      /\ courses[c].reviews[k].notHelpfulVotes \in (0 - n)..n

NextVote ==
  \/ \E i \in {"i1"} : verifyInstitution(i)
  \/ \E i \in {"i1"} : createCourse(i, "c1", TRUE, 0)
  \/ \E u \in {"u1"} :
       ReviewsBelow("c1", MaxReviews) /\ submitReview(u, "c1", <<5, 4, 3>>)
  \/ \E a \in Admins : verifyReview(a, "c1", 1, "approve", NoReason)
  \/ \E r \in RequestIds, u \in Aspirants, v \in Votes :
       TalliesBelow("c1", MaxTally) /\ voteFind(r, u, "c1", 1, v)
  \/ \E r \in RequestIds : voteSave(r)

SpecVote == Init /\ [][NextVote]_vars

\* ------------------------------------------- moderation, requests interleaved
\* PUT /api/admin/reviews/:courseId/:reviewId/verify up to the resolution of
\* findById
moderateFind(r, admin, c, reviewId, action, rejectionReason) ==
  /\ reqs[r].pc = "idle"
  /\ c \in DOMAIN courses
  /\ reqs' = [reqs EXCEPT ![r] =
                [pc |-> "moderating", user |-> admin, course |-> c,
                 doc |-> courses[c], review |-> reviewId, action |-> action,
                 rejectionReason |-> rejectionReason]]
  /\ UNCHANGED <<users, courses, shortlists, otpStore, clock>>

\* PUT /api/admin/reviews/:courseId/:reviewId/verify from the lookup of the
\* review to the end of the handler
moderateSaveResult(r) ==
  LET c == reqs[r].course
      k == reqs[r].review
      loaded == reqs[r].doc
      doc == [loaded EXCEPT !.reviews[k] =
                Moderated(@, reqs[r].user, reqs[r].action, reqs[r].rejectionReason)]
      local == PreSave(doc)
      saved == [courses EXCEPT ![c] = DeltaSave(courses[c], loaded, local)]
  IN IF k \notin 1..Len(loaded.reviews)
     THEN Reply(404, "Review not found")
     ELSE IF ~ValidCourse(doc)
     THEN Reply(500, "Server error")
     ELSE IF VersionConflict(courses[c], loaded, local)
     THEN Reply(500, "Server error")
     ELSE IF reqs[r].action = "approve" /\ Recalculated(local) # local
             /\ ~ValidCourse(Recalculated(local))
     THEN ReplyCourses(500, "Server error", saved)
     ELSE ReplyCourses(200, "Review moderated", saved)

moderateSave(r) ==
  /\ reqs[r].pc = "moderating"
  /\ courses' = moderateSaveResult(r).courses
  /\ reqs' = [reqs EXCEPT ![r] = IdleReq]
  /\ UNCHANGED <<users, shortlists, otpStore, clock>>

\* two moderations in flight, each request on a review of its own
ModeratedBy == [r \in RequestIds |-> IF r = "r1" THEN 1 ELSE 2]

NextModerate ==
  \/ \E i \in {"i1"} : verifyInstitution(i)
  \/ \E i \in {"i1"} : createCourse(i, "c1", TRUE, 0)
  \/ \E u \in Aspirants :
       /\ ReviewsBelow("c1", MaxReviews)
       /\ submitReview(u, "c1", IF u = "u1" THEN <<5, 4, 3>> ELSE <<1, 2, 3>>)
  \/ \E r \in RequestIds, a \in Admins, act \in {"approve", "reject"} :
       moderateFind(r, a, "c1", ModeratedBy[r], act, "spam")
  \/ \E r \in RequestIds : moderateSave(r)

SpecModerate == Init /\ [][NextModerate]_vars

\* ------------------------------------------------- institution: updateCourse
\* request bodies: publication, a harmless field, a forged derived field, and
\* the review list a client read with a pending review marked visible
UpdateBodies(c) ==
  {[isPublished |-> b] : b \in BOOLEAN}
  \cup {[title |-> "renamed"], [totalReviews |-> MaxRating]}
  \cup IF c \in DOMAIN courses
       THEN {[reviews |-> [courses[c].reviews EXCEPT ![k].isVisible = TRUE]] :
               k \in 1..Len(courses[c].reviews)}
       ELSE {}

\* request bodies carrying the review list a client read with one review
\* sent twice
ReviewListBodies(c) ==
  IF c \in DOMAIN courses
  THEN {[reviews |-> Append(courses[c].reviews, courses[c].reviews[k])] :
          k \in 1..Len(courses[c].reviews)}
  ELSE {}

\* request bodies of a multipart form, whose fields arrive as strings; the
\* encoding mark is not a path of courseSchema, so it is never stored
MultipartBodies ==
  {[isPublished |-> t, encoding |-> "multipart"] : t \in {"true", "false"}}

\* Object.keys(req.body).forEach(key => course[key] = req.body[key]); the
\* Boolean path isPublished casts the strings 'true' and 'false', and the
\* status follows the truthiness of the value as sent
Assigned(doc, body) ==
  LET multipart == "encoding" \in DOMAIN body
      copied == [f \in DOMAIN doc |->
                   IF f \notin DOMAIN body THEN doc[f]
                   ELSE IF multipart /\ f = "isPublished" THEN body[f] = "true"
                   ELSE body[f]]
      truthy == IF multipart THEN body.isPublished # "" ELSE body.isPublished
  IN IF "isPublished" \in DOMAIN body
     THEN [copied EXCEPT
            !.status = IF truthy THEN "published" ELSE "draft"]
     ELSE copied

\* the update handler without its ownership test
updateCourseAnyInstitution(inst, c, body) ==
  IF c \notin DOMAIN courses
  THEN Reply(404, "Course not found")
  ELSE LET doc == Assigned(courses[c], body)
       IN IF ValidCourse(doc)
          THEN ReplyCourses(200, "Course updated", SavedCourses(c, doc))
          ELSE Reply(500, "Server error")

\* PUT /api/institution/courses/:id
updateCourseResult(inst, c, body) ==
  IF c \notin DOMAIN courses
  THEN Reply(404, "Course not found")
  ELSE IF courses[c].institution # inst
  THEN Reply(403, "Not authorized")
  ELSE LET doc == Assigned(courses[c], body)
       IN IF ValidCourse(doc)
          THEN ReplyCourses(200, "Course updated", SavedCourses(c, doc))
          ELSE Reply(500, "Server error")

updateCourse(inst, c, body) == Commit(updateCourseResult(inst, c, body))

\* DELETE /api/institution/courses/:id
deleteCourseResult(inst, c) ==
  IF c \notin DOMAIN courses
  THEN Reply(404, "Course not found")
  ELSE IF courses[c].institution # inst
  THEN Reply(403, "Not authorized")
  ELSE ReplyCourses(200, "Course deleted",
                    [x \in DOMAIN courses \ {c} |-> courses[x]])

deleteCourse(inst, c) == Commit(deleteCourseResult(inst, c))

\* POST /api/institution/courses/:id/promote
PromotionInputs == PromotionEnum \cup {"gold"}

promoteCourseResult(inst, c, promotionLevel) ==
  IF promotionLevel \notin PromotionEnum
  THEN Reply(400, "Invalid promotion level")
  ELSE IF c \notin DOMAIN courses
  THEN Reply(404, "Course not found")
  ELSE IF courses[c].institution # inst
  THEN Reply(403, "Not authorized")
  ELSE LET doc == [courses[c] EXCEPT
                     !.promotionLevel = promotionLevel,
                     !.isFeatured = (promotionLevel = "featured")]
       IN IF ValidCourse(doc)
          THEN ReplyCourses(200, "Course promoted", SavedCourses(c, doc))
          ELSE Reply(500, "Server error")

promoteCourse(inst, c, promotionLevel) ==
  Commit(promoteCourseResult(inst, c, promotionLevel))

\* request bodies naming paths of the course that the clients' forms do not
\* offer: the embedded lists, the owner, the derived fields, the promotion
OwnerBodies(c) ==
  {[isPublished |-> b] : b \in BOOLEAN}
  \cup MultipartBodies
  \cup {[reviews |-> <<>>], [enrollments |-> <<>>], [totalReviews |-> MaxRating],
        [currentEnrollments |-> MaxRating], [isFeatured |-> TRUE]}
  \cup {[institution |-> i] : i \in Institutions}

\* the institution endpoints on courses that hold a review and an enrollment
NextOwner ==
  \/ \E i \in Institutions : verifyInstitution(i)
  \/ \E i \in Institutions, b \in BOOLEAN : createCourse(i, "c1", b, 0)
  \/ \E u \in {"u1"} : submitReview(u, "c1", <<5, 4, 3>>)
  \/ \E a \in Admins : verifyReview(a, "c1", 1, "approve", NoReason)
  \/ \E u \in {"u1"}, now \in Days : enroll(u, "c1", now)
  \/ \E i \in Institutions, body \in OwnerBodies("c1") :
       updateCourse(i, "c1", body)
  \/ \E i \in Institutions, l \in PromotionInputs : promoteCourse(i, "c1", l)
  \/ \E i \in Institutions : deleteCourse(i, "c1")

SpecOwner == Init /\ [][NextOwner]_vars

\* ---------------------------------------------------------------- shortlist
\* shortlistSchema.methods.addCourse
addCourse(list, c) ==
  IF \E k \in 1..Len(list) : list[k] = c THEN list ELSE Append(list, c)

\* shortlistSchema.methods.removeCourse
removeCourse(list, c) == SelectSeq(list, LAMBDA x : x # c)

\* shortlistSchema.methods.isCourseShortlisted
isCourseShortlisted(list, c) == \E k \in 1..Len(list) : list[k] = c

\* courseSchema.methods.addToShortlist
addToShortlist(doc) == PreSave([doc EXCEPT !.shortlisted = @ + 1])

\* courseSchema.methods.removeFromShortlist
removeFromShortlist(doc) ==
  PreSave([doc EXCEPT !.shortlisted = IF @ - 1 > 0 THEN @ - 1 ELSE 0])

SavedShortlists(u, list) ==
  [x \in DOMAIN shortlists \cup {u} |-> IF x = u THEN list ELSE shortlists[x]]

\* POST /api/aspirant/shortlist/:courseId
postShortlistResult(u, c) ==
  IF c \notin DOMAIN courses
  THEN Reply(404, "Course not found")
  ELSE LET shortlist == IF u \in DOMAIN shortlists THEN shortlists[u] ELSE <<>>
       IN [Reply(200, "Course added to shortlist") EXCEPT
            !.shortlists = SavedShortlists(u, addCourse(shortlist, c)),
            !.courses = [courses EXCEPT ![c] = addToShortlist(@)]]

postShortlist(u, c) == Commit(postShortlistResult(u, c))

\* DELETE /api/aspirant/shortlist/:courseId
deleteShortlistResult(u, c) ==
  IF u \notin DOMAIN shortlists
  THEN Reply(404, "Shortlist not found")
  ELSE IF ~isCourseShortlisted(shortlists[u], c)
  THEN Reply(400, "Course not in shortlist")
  ELSE [Reply(200, "Course removed from shortlist") EXCEPT
         !.shortlists = SavedShortlists(u, removeCourse(shortlists[u], c)),
         !.courses = IF c \in DOMAIN courses
                     THEN [courses EXCEPT ![c] = removeFromShortlist(@)]
                     ELSE courses]

deleteShortlist(u, c) == Commit(deleteShortlistResult(u, c))

ShortlistedBelow(c, n) == c \in DOMAIN courses => courses[c].shortlisted < n

NextShortlist ==
  \/ \E i \in {"i1"} : verifyInstitution(i)
  \/ \E i \in {"i1"}, c \in CourseIds : createCourse(i, c, TRUE, 0)
  \/ \E u \in Aspirants, c \in CourseIds :
       ShortlistedBelow(c, MaxShortlisted) /\ postShortlist(u, c)
  \/ \E u \in Aspirants, c \in CourseIds : deleteShortlist(u, c)

SpecShortlist == Init /\ [][NextShortlist]_vars

\* ------------------------------------------------ admin: account activation
StatusInputs == {"active", "inactive", "blocked"}

\* PUT /api/admin/institutions/:id/status
updateInstitutionStatusResult(id, status, reason) ==
  IF id \notin DOMAIN users \/ users[id].role # "institution"
  THEN Reply(404, "Institution not found")
  ELSE [Reply(200, "Institution status updated") EXCEPT
         !.users = IF status = "active"
                   THEN [users EXCEPT ![id].isActive = TRUE]
                   ELSE IF status = "inactive"
                   THEN [users EXCEPT ![id].isActive = FALSE]
                   ELSE users]

updateInstitutionStatus(id, status, reason) ==
  Commit(updateInstitutionStatusResult(id, status, reason))

\* PUT /api/admin/users/:id/status
updateUserStatusResult(id, isActive) ==
  IF id \notin DOMAIN users
  THEN Reply(404, "User not found")
  ELSE [Reply(200, "User status updated") EXCEPT
         !.users = [users EXCEPT ![id].isActive = isActive]]

updateUserStatus(id, isActive) == Commit(updateUserStatusResult(id, isActive))

\* PUT /api/admin/courses/:id/publish; course.publishStatus is not a path of
\* courseSchema, so the value assigned to it never reaches the stored document
ToggleActions == {"publish", "unpublish", "suspend"}

toggleCoursePublicationResult(admin, c, action, reason, now) ==
  IF c \notin DOMAIN courses
  THEN Reply(404, "Course not found")
  ELSE LET isPublished == action = "publish"
           doc == [courses[c] EXCEPT
                     !.isPublished = isPublished,
                     !.adminAction =
                        [action |-> IF isPublished THEN "published"
                                    ELSE "unpublished",
                         reason |-> IF reason \in {NoReason, ""} THEN ""
                                    ELSE reason,
                         actionBy |-> admin,
                         actionAt |-> now]]
       IN IF ValidCourse(doc)
          THEN ReplyCourses(200, "Course publication toggled",
                            SavedCourses(c, doc))
          ELSE Reply(500, "Server error")

toggleCoursePublication(admin, c, action, reason, now) ==
  Commit(toggleCoursePublicationResult(admin, c, action, reason, now))

NextPublication ==
  \/ \E i \in {"i1"} : verifyInstitution(i)
  \/ \E i \in {"i1"}, c \in CourseIds, b \in BOOLEAN : createCourse(i, c, b, 0)
  \/ \E i \in {"i1"}, c \in CourseIds,
        body \in {[isPublished |-> b] : b \in BOOLEAN} \cup MultipartBodies :
       updateCourse(i, c, body)
  \/ \E a \in Admins, c \in CourseIds, act \in ToggleActions,
        why \in ReasonInputs \cup {""}, now \in Days :
       toggleCoursePublication(a, c, act, why, now)

SpecPublication == Init /\ [][NextPublication]_vars

NextInstitution ==
  \/ \E i \in Institutions : verifyInstitution(i)
  \/ \E i \in Institutions, c \in CourseIds, b \in BOOLEAN :
       createCourse(i, c, b, 0)
  \/ \E i \in Institutions \cup Aspirants, st \in StatusInputs,
        why \in ReasonInputs :
       updateInstitutionStatus(i, st, why)
  \/ \E i \in Institutions \cup Aspirants, b \in BOOLEAN : updateUserStatus(i, b)
  \/ \E i \in Institutions, c \in CourseIds, b \in BOOLEAN :
       updateCourse(i, c, [isPublished |-> b])

SpecInstitution == Init /\ [][NextInstitution]_vars

\* ------------------------------------------------------------------- signup
\* an email address is named by the id of the account it registers, and signs
\* up with the role of that id
Emails == {"u1", "i1", "a1"}
NoEmail == ""
Codes == {"111111", "222222"}
NoCode == ""
AdminSecretCode == "admin123"
AdminCodes == {AdminSecretCode, "letmein"}

\* 10 * 60 * 1000 ms
OtpLifetime == 2

\* crypto.createHash('sha256').update(otp).digest('hex')
Sha256(otp) == <<"sha256", otp>>

\* paths of userSchema kept in a stored user document
UserSchemaPaths == {"role", "isVerified", "isActive"}

\* User.create(userData): the strict schema keeps the paths it defines and
\* fills the others from their defaults
UserCreate(userData) ==
  [f \in UserSchemaPaths |->
     IF f \in DOMAIN userData THEN userData[f]
     ELSE IF f = "isVerified" THEN userData.role = "aspirant"
     ELSE TRUE]

\* existingUser.isEmailVerified, undefined on a document without that path
IsEmailVerified(doc) ==
  IF "isEmailVerified" \in DOMAIN doc THEN doc.isEmailVerified ELSE FALSE

AuthReply(status, kind, us, store) ==
  [res |-> Response(status, kind), users |-> us, otpStore |-> store]

CommitAuth(out) ==
  /\ users' = out.users
  /\ otpStore' = out.otpStore
  /\ UNCHANGED <<courses, shortlists, reqs, clock>>

\* otpStore.delete(email)
OtpDeleted(email) == [e \in DOMAIN otpStore \ {email} |-> otpStore[e]]

\* what signup does once the OTP check has passed
signupAfterOtp(email, adminCode, profileComplete, validUser) ==
  LET role == RoleOf(email)
      userData ==
        IF role = "institution"
        THEN [role |-> role, isEmailVerified |-> TRUE, isVerified |-> FALSE,
              verificationStatus |-> "pending"]
        ELSE [role |-> role, isEmailVerified |-> TRUE]
  IN IF email \in DOMAIN users
     THEN AuthReply(400, "Email already registered", users, OtpDeleted(email))
     ELSE IF role = "admin" /\ adminCode # AdminSecretCode
     THEN AuthReply(401, "Invalid admin code", users, OtpDeleted(email))
     ELSE IF role = "institution" /\ ~profileComplete
     THEN AuthReply(400, "All required institution fields must be provided",
                    users, OtpDeleted(email))
     ELSE IF ~validUser
     THEN AuthReply(500, "Database error during user creation",
                    users, OtpDeleted(email))
     ELSE AuthReply(201, "User registered successfully",
                    [u \in DOMAIN users \cup {email} |->
                       IF u = email THEN UserCreate(userData) ELSE users[u]],
                    OtpDeleted(email))

\* signup trusting the isEmailVerified flag of the body alone
signupTrustingBody(email, adminCode, profileComplete, isEmailVerified, validUser) ==
  IF ~isEmailVerified
  THEN AuthReply(400, "Please verify your email before signing up",
                 users, otpStore)
  ELSE signupAfterOtp(email, adminCode, profileComplete, validUser)

\* POST /api/auth/signup
signupResult(email, adminCode, profileComplete, isEmailVerified, validUser) ==
  IF \/ ~isEmailVerified
     \/ email \notin DOMAIN otpStore
     \/ ~otpStore[email].verified
  THEN AuthReply(400, "Please verify your email before signing up",
                 users, otpStore)
  ELSE signupAfterOtp(email, adminCode, profileComplete, validUser)

signup(email, adminCode, profileComplete, isEmailVerified, validUser) ==
  CommitAuth(signupResult(email, adminCode, profileComplete, isEmailVerified,
                          validUser))

\* POST /api/auth/send-otp; otp is the code drawn by Math.random, emailSent
\* the outcome of sendOTPEmail
sendOTPResult(email, otp, emailSent) ==
  IF email = NoEmail
  THEN AuthReply(400, "Email is required", users, otpStore)
  ELSE IF email \in DOMAIN users /\ IsEmailVerified(users[email])
  THEN AuthReply(400, "Email already registered and verified", users, otpStore)
  ELSE LET remaining == [u \in DOMAIN users \ {email} |-> users[u]]
           otpData == [otp |-> Sha256(otp),
                       expiresAt |-> clock + OtpLifetime,
                       verified |-> FALSE]
           stored == [e \in DOMAIN otpStore \cup {email} |->
                        IF e = email THEN otpData ELSE otpStore[e]]
       IN IF emailSent
          THEN AuthReply(200, "OTP sent successfully", remaining, stored)
          ELSE AuthReply(500, "Failed to send verification email",
                         remaining, stored)

sendOTP(email, otp, emailSent) == CommitAuth(sendOTPResult(email, otp, emailSent))

\* POST /api/auth/verify-otp
verifyOTPResult(email, otp) ==
  IF otp = NoCode \/ email = NoEmail
  THEN AuthReply(400, "OTP and email are required", users, otpStore)
  ELSE IF email \notin DOMAIN otpStore
  THEN AuthReply(400, "OTP expired or invalid", users, otpStore)
  ELSE IF otpStore[email].expiresAt < clock
  THEN AuthReply(400, "OTP has expired", users, OtpDeleted(email))
  ELSE IF Sha256(otp) # otpStore[email].otp
  THEN AuthReply(400, "Invalid OTP", users, otpStore)
  ELSE AuthReply(200, "Email verified successfully", users,
                 [otpStore EXCEPT ![email].verified = TRUE])

verifyOTP(email, otp) == CommitAuth(verifyOTPResult(email, otp))

\* time passing between requests
Tick ==
  /\ clock < MaxClock
  /\ clock' = clock + 1
  /\ UNCHANGED <<users, courses, shortlists, reqs, otpStore>>

\* no account registered and no OTP sent yet
InitSignup ==
  /\ users = [e \in {} |-> 0]
  /\ courses = [c \in {} |-> 0]
  /\ shortlists = [u \in {} |-> <<>>]
  /\ reqs = [r \in RequestIds |-> IdleReq]
  /\ otpStore = [e \in {} |-> 0]
  /\ clock = 0

NextSignup ==
  \/ \E email \in Emails \cup {NoEmail}, otp \in Codes, emailSent \in BOOLEAN :
       sendOTP(email, otp, emailSent)
  \/ \E email \in Emails \cup {NoEmail}, otp \in Codes \cup {NoCode} :
       verifyOTP(email, otp)
  \/ \E email \in Emails, adminCode \in AdminCodes,
        profileComplete, isEmailVerified, validUser \in BOOLEAN :
       signup(email, adminCode, profileComplete, isEmailVerified, validUser)
  \/ \E id \in Emails : verifyInstitution(id)
  \/ Tick

SpecSignup == InitSignup /\ [][NextSignup]_vars

\* -------------------------------------------------------------------- reads
\* who sends a read: no token, a token that fails jwt.verify, or a user
Anonymous == "anonymous"
InvalidToken == "invalid"
Requesters == {Anonymous, InvalidToken} \cup UserIds

\* tokens whose payload names a user but whose signature fails jwt.verify
ForgedTokens == {"forged-i1", "forged-a1"}
InvalidTokens == {InvalidToken} \cup ForgedTokens

\* the id in the payload of a token, as jwt.decode reads it without verifying
ClaimedId(token) ==
  IF token = "forged-i1" THEN "i1"
  ELSE IF token = "forged-a1" THEN "a1" ELSE token

\* a review as serialised in a response, with its subdocument _id
WithIds(reviews) ==
  [k \in 1..Len(reviews) |->
     [f \in DOMAIN reviews[k] \cup {"_id"} |->
        IF f = "_id" THEN k ELSE reviews[k][f]]]

NotFound == [status |-> 404, reviews |-> <<>>]

\* the detail read without its moderation filter
UnfilteredReviews(reviews) == reviews

\* filter of the first GET /:id handler
PublicReviews(reviews) == SelectSeq(reviews, IsApproved)

\* the first GET /:id handler reading the token's payload without verifying it
GetCourseFirstDecodeOnly(c, who) ==
  IF c \notin DOMAIN courses
  THEN NotFound
  ELSE IF (~courses[c].isPublished \/ courses[c].status # "published")
          /\ (who = Anonymous \/ ClaimedId(who) # courses[c].institution)
  THEN NotFound
  ELSE [status |-> 200,
        reviews |-> PublicReviews(WithIds(courses[c].reviews))]

\* GET /api/courses/:id, the handler registered first
GetCourseFirst(c, who) ==
  IF c \notin DOMAIN courses
  THEN NotFound
  ELSE IF (~courses[c].isPublished \/ courses[c].status # "published")
          /\ (who = Anonymous \/ who \in InvalidTokens
              \/ who # courses[c].institution)
  THEN NotFound
  ELSE [status |-> 200,
        reviews |-> PublicReviews(WithIds(courses[c].reviews))]

\* GET /api/courses/:id, the handler registered second
GetCourseSecond(c, who) ==
  LET userRole == IF who \in UserIds THEN RoleOf(who) ELSE "public"
      isOwner == userRole = "institution" /\ who = courses[c].institution
      all == WithIds(courses[c].reviews)
  IN IF c \notin DOMAIN courses
     THEN NotFound
     ELSE IF (~courses[c].isPublished \/ courses[c].status # "published")
             /\ userRole # "admin" /\ ~isOwner
     THEN NotFound
     ELSE [status |-> 200,
           reviews |->
             IF userRole = "admin"
             THEN [k \in 1..Len(all) |->
                     [f \in DOMAIN all[k] \cup {"canModerate"} |->
                        IF f = "canModerate" THEN TRUE ELSE all[k][f]]]
             ELSE IF isOwner
             THEN all
             ELSE SelectSeq(all, LAMBDA r : IsApproved(r) /\ r.isVisible)]

\* the router runs the handlers of a path in registration order; the first
\* handler always ends the response and never calls next()
RouteGetCourse(c, who) ==
  LET handlers == <<GetCourseFirst(c, who), GetCourseSecond(c, who)>>
  IN handlers[1]

\* GET /api/institution/reviews
getInstitutionReviews(inst) ==
  {[_id |-> <<c, k>>,
    user |-> courses[c].reviews[k].user,
    courseRating |-> courses[c].reviews[k].courseRating,
    instituteRating |-> courses[c].reviews[k].instituteRating,
    facultyRating |-> courses[c].reviews[k].facultyRating,
    isVerified |-> courses[c].reviews[k].isVerified,
    verificationStatus |-> courses[c].reviews[k].verificationStatus,
    rejectionReason |-> courses[c].reviews[k].rejectionReason,
    helpfulVotes |-> courses[c].reviews[k].helpfulVotes] :
     <<c, k>> \in {p \in (DOMAIN courses) \X (1..MaxReviews) :
                     /\ courses[p[1]].institution = inst
                     /\ p[2] <= Len(courses[p[1]].reviews)}}

\* GET /api/admin/courses: the course documents with their embedded reviews
getAllCourses == [c \in DOMAIN courses |-> WithIds(courses[c].reviews)]

\* GET /api/courses/published: the lean course documents matching the query,
\* each with its embedded review list
getPublishedCourses ==
  [c \in {d \in DOMAIN courses :
            courses[d].isPublished /\ courses[d].status = "published"} |->
     WithIds(courses[c].reviews)]

\* protect: lets a request through when it carries the verified token of a user
protect(who) == who \in UserIds

Unauthorized == [status |-> 401, reviews |-> <<>>]

\* GET /api/courses/:id/complete
getCourseComplete(c, who) ==
  IF ~protect(who)
  THEN Unauthorized
  ELSE IF c \notin DOMAIN courses
  THEN NotFound
  ELSE [status |-> 200, reviews |-> WithIds(courses[c].reviews)]

\* GET /api/institutions/:id/profile with optional authentication; the
\* response names the listed courses and says whether the contactPerson and
\* owner subfields were added
getPublicInstitutionProfile(id, who) ==
  LET requestingUserId == IF who \in UserIds THEN who ELSE NoUser
      requestingUserRole ==
        IF who \in UserIds /\ who \in DOMAIN users THEN users[who].role
        ELSE "null"
      isOwner == requestingUserRole = "institution" /\ requestingUserId = id
      isAdmin == requestingUserRole = "admin"
      publishedOnly ==
        \/ requestingUserId = NoUser
        \/ requestingUserRole = "aspirant"
        \/ ~isOwner /\ ~isAdmin
      listed ==
        {c \in DOMAIN courses :
           /\ courses[c].institution = id
           /\ publishedOnly =>
                courses[c].isPublished /\ courses[c].status = "published"}
  IN IF id \notin DOMAIN users \/ users[id].role # "institution"
     THEN [status |-> 404]
     ELSE [status |-> 200,
           courses |-> listed,
           contactPerson |-> (requestingUserId # NoUser
                              /\ requestingUserRole # "aspirant"
                              /\ (isOwner \/ isAdmin)),
           owner |-> (requestingUserId # NoUser
                      /\ requestingUserRole # "aspirant"
                      /\ ~isOwner /\ isAdmin),
           userRole |-> requestingUserRole,
           isOwner |-> isOwner]

\* ------------------------------------------------------------ specification
Next ==
  \/ \E i \in {"i1"} : verifyInstitution(i)
  \/ \E i \in {"i1"}, b \in BOOLEAN : createCourse(i, "c1", b, 0)
  \/ \E u \in Aspirants, t \in RatingInputs :
       ReviewsBelow("c1", MaxReviews) /\ submitReview(u, "c1", t)
  \/ \E a \in Admins, k \in 1..MaxReviews, act \in ModerationActions,
        why \in ReasonInputs :
       (act # "reject" => why = NoReason) /\ verifyReview(a, "c1", k, act, why)
  \/ \E u \in {"u1"}, k \in 1..MaxReviews, v \in Votes :
       voteReview(u, "c1", k, v)
  \/ \E u \in {"u1"}, now \in Days : enroll(u, "c1", now)
  \/ \E i \in Institutions, body \in UpdateBodies("c1") :
       updateCourse(i, "c1", body)

Spec == Init /\ [][Next]_vars

\* the institution's course updates next to review submission
NextUpdate ==
  \/ \E i \in {"i1"} : verifyInstitution(i)
  \/ \E i \in {"i1"}, b \in BOOLEAN : createCourse(i, "c1", b, 0)
  \/ \E u \in Aspirants, t \in RatingInputs :
       ReviewsBelow("c1", MaxReviews) /\ submitReview(u, "c1", t)
  \/ \E u \in Aspirants, now \in Days : enroll(u, "c1", now)
  \/ \E i \in Institutions, body \in UpdateBodies("c1") \cup ReviewListBodies("c1") :
       ReviewsBelow("c1", MaxReviews) /\ updateCourse(i, "c1", body)

SpecUpdate == Init /\ [][NextUpdate]_vars

\* request bodies that move the course dates
DateBodies ==
  {[startDate |-> d] : d \in Days} \cup {[enrollmentDeadline |-> d] : d \in Days}

\* enrollment against the course dates and the capacity
NextDates ==
  \/ \E i \in {"i1"} : verifyInstitution(i)
  \/ \E i \in {"i1"}, b \in BOOLEAN, m \in 0..MaxCapacity :
       createCourse(i, "c1", b, m)
  \/ \E i \in {"i1"}, body \in DateBodies \cup {[isPublished |-> b] : b \in BOOLEAN} :
       updateCourse(i, "c1", body)
  \/ \E u \in Aspirants, now \in Days : enroll(u, "c1", now)

SpecDates == Init /\ [][NextDates]_vars

\* ------------------------------------------------------------- properties
ApprovedIds(doc) ==
  {k \in 1..Len(doc.reviews) : doc.reviews[k].verificationStatus = "approved"}

RECURSIVE SumOver(_, _, _)
SumOver(doc, ids, field) ==
  IF ids = {} THEN 0
  ELSE LET k == CHOOSE x \in ids : TRUE
       IN doc.reviews[k][field] + SumOver(doc, ids \ {k}, field)

\* q is the fraction total / n
IsQuotient(q, total, n) == q.den > 0 /\ q.num * n = total * q.den

RatingConsistent(doc) ==
  LET ids == ApprovedIds(doc)
      n == Cardinality(ids)
      sc == SumOver(doc, ids, "courseRating")
      si == SumOver(doc, ids, "instituteRating")
      sf == SumOver(doc, ids, "facultyRating")
      avg == doc.averageRating
  IN /\ doc.totalReviews = n
     /\ IF n = 0
        THEN /\ avg.course.num = 0
             /\ avg.institute.num = 0
             /\ avg.faculty.num = 0
             /\ avg.overall.num = 0
        ELSE /\ IsQuotient(avg.course, sc, n)
             /\ IsQuotient(avg.institute, si, n)
             /\ IsQuotient(avg.faculty, sf, n)
             /\ IsQuotient(avg.overall, sc + si + sf, 3 * n)

\* C1: in every persisted state the stored averageRating fields are the means
\* over exactly the approved reviews, overall is the mean of the three means,
\* totalReviews is the number of approved reviews, and all are 0 when no
\* review is approved.
C1_RatingInvariant ==
  \A c \in DOMAIN courses : RatingConsistent(courses[c])

\* a course with an approved and a non-approved review whose two approved-only
\* means differ from the means over all reviews
C1_Witness ==
  /\ "c1" \in DOMAIN courses
  /\ Len(courses["c1"].reviews) = 2
  /\ courses["c1"].reviews[1].verificationStatus = "approved"
  /\ courses["c1"].reviews[2].verificationStatus = "rejected"
  /\ courses["c1"].reviews[1].courseRating # courses["c1"].reviews[2].courseRating
  /\ courses["c1"].totalReviews = 1

\* C3: a submitReview by a user who already has a review on the course fails
\* with the duplicate-review error and changes nothing, and every course holds
\* at most one review per user.
C3_OneReviewPerUser ==
  \A c \in DOMAIN courses :
    /\ \A u \in Aspirants, t \in {<<5, 4, 3>>, <<1, 2, 3>>} :
         HasReviewBy(courses[c], u) =>
           /\ submitReviewResult(u, c, t).res = Response(400, "Already reviewed")
           /\ submitReviewResult(u, c, t).courses = courses
    /\ \A j, k \in 1..Len(courses[c].reviews) :
         courses[c].reviews[j].user = courses[c].reviews[k].user => j = k

IsPublic(doc) == doc.isPublished /\ doc.status = "published"

\* C5: for a published course an anonymous or aspirant reader gets exactly the
\* approved-and-visible reviews, the owning institution gets all reviews and
\* an admin gets all reviews.
C5_VisibilityScenario ==
  \A c \in DOMAIN courses :
    IsPublic(courses[c]) =>
      LET all == WithIds(courses[c].reviews)
          shown(who) == RouteGetCourse(c, who).reviews
          ids(rs) == {rs[k]._id : k \in 1..Len(rs)}
      IN /\ \A who \in {Anonymous} \cup Aspirants :
              shown(who) = SelectSeq(all, LAMBDA r : IsApproved(r) /\ r.isVisible)
         /\ shown(courses[c].institution) = all
         /\ \A a \in Admins : ids(shown(a)) = ids(all)

VotesOf(r, u) == {e \in 1..Len(r.votedBy) : r.votedBy[e].user = u}

\* C6: when a user with one recorded vote on an approved review votes the
\* other value, the old tally drops by exactly 1, the new one rises by exactly
\* 1, the total is unchanged and the user's single record holds the new value;
\* voting the recorded value again changes nothing.
C6_VoteFlip ==
  \A c \in DOMAIN courses, u \in UserIds, v \in Votes :
    \A k \in 1..Len(courses[c].reviews) :
      LET r == courses[c].reviews[k]
          out == voteReviewResult(u, c, k, v)
          r2 == out.courses[c].reviews[k]
          e == CHOOSE x \in VotesOf(r, u) : TRUE
      IN (IsApproved(r) /\ Cardinality(VotesOf(r, u)) = 1) =>
           /\ out.res.status = 200
           /\ IF r.votedBy[e].vote = v
              THEN out.courses = courses
              ELSE /\ r2.helpfulVotes - r.helpfulVotes
                        = (IF v = "helpful" THEN 1 ELSE -1)
                   /\ r2.notHelpfulVotes - r.notHelpfulVotes
                        = (IF v = "helpful" THEN -1 ELSE 1)
                   /\ r2.helpfulVotes + r2.notHelpfulVotes
                        = r.helpfulVotes + r.notHelpfulVotes
                   /\ VotesOf(r2, u) = {e}
                   /\ r2.votedBy[e].vote = v
                   /\ Len(r2.votedBy) = Len(r.votedBy)

\* an approved review carrying exactly the one vote of u1, flipped or not
C6_Witness ==
  /\ "c1" \in DOMAIN courses
  /\ Len(courses["c1"].reviews) >= 1
  /\ IsApproved(courses["c1"].reviews[1])
  /\ courses["c1"].reviews[1].votedBy = <<[user |-> "u1", vote |-> "not_helpful"]>>
  /\ courses["c1"].reviews[1].notHelpfulVotes = 1
  /\ courses["c1"].reviews[1].helpfulVotes = 0

\* C7: an approval makes the review part of the public course detail with
\* isVisible = TRUE; a later rejection with a reason removes it from the public
\* detail, while the institution's review list and the admin's course listing
\* still hold it with that rejectionReason.
C7_RoundTrip ==
  [][\A c \in DOMAIN courses, k \in 1..MaxReviews :
       (/\ IsPublic(courses[c])
        /\ k <= Len(courses[c].reviews)
        /\ k <= Len(courses'[c].reviews)
        /\ courses'[c].reviews[k] # courses[c].reviews[k]) =>
         \A a \in Admins, why \in ReasonInputs :
           /\ verifyReview(a, c, k, "approve", why) =>
                \E j \in 1..Len(RouteGetCourse(c, Anonymous).reviews)' :
                  /\ RouteGetCourse(c, Anonymous).reviews'[j]._id = k
                  /\ RouteGetCourse(c, Anonymous).reviews'[j].isVisible
           /\ verifyReview(a, c, k, "reject", why) =>
                /\ \A j \in 1..Len(RouteGetCourse(c, Anonymous).reviews)' :
                     RouteGetCourse(c, Anonymous).reviews'[j]._id # k
                /\ \E r \in getInstitutionReviews(courses[c].institution)' :
                     /\ r._id = <<c, k>>
                     /\ r.verificationStatus = "rejected"
                     /\ r.rejectionReason = why
                /\ getAllCourses'[c][k].verificationStatus = "rejected"
                /\ getAllCourses'[c][k].rejectionReason = why
    ]_vars

\* a published course whose first review was approved, voted on and then
\* rejected with a reason
C7_Witness ==
  /\ "c1" \in DOMAIN courses
  /\ IsPublic(courses["c1"])
  /\ Len(courses["c1"].reviews) >= 1
  /\ courses["c1"].reviews[1].verificationStatus = "rejected"
  /\ courses["c1"].reviews[1].rejectionReason = "spam"
  /\ courses["c1"].reviews[1].votedBy # <<>>
  /\ RouteGetCourse("c1", Anonymous) = [status |-> 200, reviews |-> <<>>]

\* C9: for every review, isVisible is TRUE exactly when verificationStatus is
\* 'approved'.
C9_VisibleIffApproved ==
  \A c \in DOMAIN courses :
    \A k \in 1..Len(courses[c].reviews) :
      courses[c].reviews[k].isVisible <=> IsApproved(courses[c].reviews[k])

CompletedCount(doc) ==
  Cardinality({k \in 1..Len(doc.enrollments) :
                 doc.enrollments[k].paymentStatus = "completed"})

\* C2: a course with maxStudents = N > 0 never holds more than N enrollments
\* with paymentStatus 'completed', whatever the interleaving of enroll
\* requests.
C2_EnrollmentCap ==
  \A c \in DOMAIN courses :
    courses[c].maxStudents > 0 =>
      CompletedCount(courses[c]) <= courses[c].maxStudents

\* C8: in every persisted state currentEnrollments is the number of embedded
\* enrollments with paymentStatus 'completed'.
C8_CurrentEnrollmentsDerived ==
  \A c \in DOMAIN courses :
    courses[c].currentEnrollments = CompletedCount(courses[c])

OwnedBy(cs, i) == {c \in DOMAIN cs : cs[c].institution = i}

Deactivates(i) ==
  /\ users[i].isActive
  /\ \/ \E why \in ReasonInputs : updateInstitutionStatus(i, "inactive", why)
     \/ updateUserStatus(i, FALSE)

Reactivates(i) ==
  /\ ~users[i].isActive
  /\ \/ \E why \in ReasonInputs : updateInstitutionStatus(i, "active", why)
     \/ updateUserStatus(i, TRUE)

\* C4: a deactivation of an institution leaves every course it owns with
\* status 'suspended' and isPublished FALSE, and a reactivation leaves the
\* suspended courses suspended.
C4_DelistCascade ==
  [][\A i \in Institutions :
       /\ Deactivates(i) =>
            \A c \in OwnedBy(courses', i) :
              courses'[c].status = "suspended" /\ ~courses'[c].isPublished
       /\ Reactivates(i) =>
            \A c \in OwnedBy(courses, i) :
              courses[c].status = "suspended" =>
                courses'[c].status = "suspended" /\ ~courses'[c].isPublished
    ]_vars

ShortlistsHolding(c) ==
  {u \in DOMAIN shortlists : isCourseShortlisted(shortlists[u], c)}

\* C10: with no shortlist request in flight, the shortlisted counter of every
\* course is the number of users' shortlists that contain the course.
C10_ShortlistCounter ==
  \A c \in DOMAIN courses :
    courses[c].shortlisted = Cardinality(ShortlistsHolding(c))

\* C11: an enroll by a user who already has an enrollment record on the course
\* fails and appends nothing, and in every state, also after interleaved
\* enroll requests by one user, a course holds at most one enrollment record
\* per user.
C11_OneEnrollmentPerUser ==
  \A c \in DOMAIN courses :
    /\ \A u \in Aspirants, now \in Days :
         AlreadyEnrolled(courses[c], u) =>
           /\ enrollResult(u, c, now).res.status = 400
           /\ enrollResult(u, c, now).courses = courses
    /\ \A j, k \in 1..Len(courses[c].enrollments) :
         courses[c].enrollments[j].user = courses[c].enrollments[k].user => j = k

StatusSteps ==
  {<<"pending", "approved">>, <<"pending", "rejected">>,
   <<"approved", "archived">>, <<"rejected", "archived">>}

\* C12: along every execution the verificationStatus of a review changes only
\* by pending->approved, pending->rejected, approved->archived or
\* rejected->archived, so an archived review never changes again and a
\* moderation asking for any other transition leaves the status as it was.
C12_StatusMachine ==
  [][\A c \in DOMAIN courses :
       \A k \in 1..Len(courses[c].reviews) :
         LET before == courses[c].reviews[k].verificationStatus
             after == courses'[c].reviews[k].verificationStatus
         IN after # before => <<before, after>> \in StatusSteps
    ]_vars

\* C13: a review is created with isVerified TRUE exactly when its author then
\* has a completed enrollment in the course, and no later operation
\* (moderation, vote, enroll) changes the flag of an existing review.
C13_BadgeImmutable ==
  [][\A c \in DOMAIN courses :
       /\ \A k \in 1..Len(courses[c].reviews) :
            courses'[c].reviews[k].isVerified = courses[c].reviews[k].isVerified
       /\ \A k \in (Len(courses[c].reviews) + 1)..Len(courses'[c].reviews) :
            courses'[c].reviews[k].isVerified
              <=> HasCompletedEnrollment(courses[c], courses'[c].reviews[k].user)
    ]_vars

\* C14: a moderation with action 'reject' and no rejectionReason fails and
\* leaves the review as it was, so every rejected review carries a non-empty
\* rejectionReason.
C14_RejectNeedsReason ==
  \A c \in DOMAIN courses :
    \A k \in 1..Len(courses[c].reviews) :
      /\ \A a \in Admins :
           LET out == verifyReviewResult(a, c, k, "reject", NoReason)
           IN /\ out.res.status # 200
              /\ out.courses = courses
      /\ courses[c].reviews[k].verificationStatus = "rejected" =>
           courses[c].reviews[k].rejectionReason \notin {NoReason, ""}

\* C15: a moderation with action 'archive' on an approved or rejected review
\* succeeds and stores the review with verificationStatus 'archived' and
\* isVisible FALSE, the stored rating aggregate being the one computed
\* without that review.
C15_ArchivePersists ==
  \A c \in DOMAIN courses :
    \A k \in 1..Len(courses[c].reviews) :
      courses[c].reviews[k].verificationStatus \in {"approved", "rejected"} =>
        \A a \in Admins :
          LET out == verifyReviewResult(a, c, k, "archive", NoReason)
          IN /\ out.res.status = 200
             /\ out.courses[c].reviews[k].verificationStatus = "archived"
             /\ ~out.courses[c].reviews[k].isVisible
             /\ RatingConsistent(out.courses[c])

\* C16: a vote on a review whose verificationStatus is not 'approved' fails
\* with the cannot-vote error and leaves helpfulVotes, notHelpfulVotes and
\* votedBy, like the rest of the store, unchanged.
C16_VoteOnlyApproved ==
  \A c \in DOMAIN courses, u \in UserIds, v \in Votes :
    \A k \in 1..Len(courses[c].reviews) :
      ~IsApproved(courses[c].reviews[k]) =>
        /\ voteReviewResult(u, c, k, v).res
             = Response(400, "Cannot vote on unverified reviews")
        /\ voteReviewResult(u, c, k, v).courses = courses

\* a review that was voted on while approved and is now rejected, so that a
\* recorded voter could flip the vote and a new voter could add one
C16_Witness ==
  /\ "c1" \in DOMAIN courses
  /\ Len(courses["c1"].reviews) = 2
  /\ courses["c1"].reviews[2].verificationStatus = "rejected"
  /\ courses["c1"].reviews[2].votedBy = <<[user |-> "u1", vote |-> "helpful"]>>
  /\ courses["c1"].reviews[2].helpfulVotes = 1
  /\ courses["c1"].reviews[1].verificationStatus = "pending"

VoteCount(r, v) ==
  Cardinality({e \in 1..Len(r.votedBy) : r.votedBy[e].vote = v})

\* C17: in every state, also after interleaved vote requests, votedBy holds
\* at most one record per user and helpfulVotes / notHelpfulVotes are the
\* numbers of votedBy records with vote 'helpful' / 'not_helpful'.
C17_VoteTally ==
  \A c \in DOMAIN courses :
    \A k \in 1..Len(courses[c].reviews) :
      LET r == courses[c].reviews[k]
      IN /\ \A u \in UserIds : Cardinality(VotesOf(r, u)) <= 1
         /\ r.helpfulVotes = VoteCount(r, "helpful")
         /\ r.notHelpfulVotes = VoteCount(r, "not_helpful")

\* C18: once the moderation requests in flight have completed, the stored
\* averageRating and totalReviews of a course are the aggregate of its stored
\* review list, also when two moderations of different reviews of the course
\* were interleaved.
C18_NoLostUpdate ==
  (\A r \in RequestIds : reqs[r].pc = "idle") =>
    \A c \in DOMAIN courses : RatingConsistent(courses[c])

\* the conditions under which the course accepts an enrollment on day now
Enrollable(doc, now) ==
  /\ doc.isPublished
  /\ doc.status = "published"
  /\ now <= doc.startDate
  /\ doc.enrollmentDeadline # NoDate => now <= doc.enrollmentDeadline
  /\ doc.maxStudents = 0 \/ doc.currentEnrollments < doc.maxStudents

\* C19: an enroll on a course that is not published, whose status is not
\* 'published', whose startDate or set enrollmentDeadline has passed, or
\* that is full, fails with the not-available error and appends no enrollment.
C19_EnrollEligibility ==
  \A c \in DOMAIN courses, u \in Aspirants, now \in Days :
    ~Enrollable(courses[c], now) =>
      /\ enrollResult(u, c, now).res
           = Response(400, "Not available for enrollment")
      /\ enrollResult(u, c, now).courses = courses

\* C20: an admin toggle with a non-empty reason leaves the course with
\* isPublished TRUE and status 'published' for action 'publish', with
\* isPublished FALSE and status 'suspended' for any other action, and stamps
\* reason, admin and time in adminAction; a toggle without a reason fails and
\* changes nothing.
C20_AdminToggle ==
  \A c \in DOMAIN courses, a \in Admins, act \in ToggleActions, now \in Days :
    /\ \A why \in {NoReason, ""} :
         LET out == toggleCoursePublicationResult(a, c, act, why, now)
         IN out.res.status # 200 /\ out.courses = courses
    /\ LET out == toggleCoursePublicationResult(a, c, act, "spam", now)
           doc == out.courses[c]
       IN /\ out.res.status = 200
          /\ doc.isPublished = (act = "publish")
          /\ doc.status = (IF act = "publish" THEN "published" ELSE "suspended")
          /\ doc.adminAction.reason = "spam"
          /\ doc.adminAction.actionBy = a
          /\ doc.adminAction.actionAt = now

\* C21: promoteCourse succeeds only for the owning institution and a level
\* among none, basic, premium and featured, and otherwise changes nothing;
\* after a successful call, and so in every state, a course is featured
\* exactly when its promotionLevel is 'featured'.
C21_FeaturedIffLevel ==
  \A c \in DOMAIN courses :
    /\ \A i \in Institutions, l \in PromotionInputs :
         LET out == promoteCourseResult(i, c, l)
         IN IF i = courses[c].institution /\ l \in PromotionEnum
            THEN /\ out.res.status = 200
                 /\ out.courses[c].promotionLevel = l
                 /\ out.courses[c].isFeatured = (l = "featured")
            ELSE out.res.status # 200 /\ out.courses = courses
    /\ courses[c].isFeatured = (courses[c].promotionLevel = "featured")

C27_NotClientWritable ==
  \A c \in DOMAIN courses :
    \A body \in OwnerBodies(c) :
      LET out == updateCourseResult(courses[c].institution, c, body)
      IN /\ out.courses[c].reviews = courses[c].reviews
         /\ out.courses[c].enrollments = courses[c].enrollments
         /\ out.courses[c].institution = courses[c].institution
         /\ out.courses[c].averageRating = courses[c].averageRating
         /\ out.courses[c].totalReviews = courses[c].totalReviews
         /\ out.courses[c].currentEnrollments = courses[c].currentEnrollments

\* C22: a course that is not published (isPublished false or status other
\* than 'published') is absent from the public listing, the detail read
\* answers NotFound for it to every requester who is neither its owning
\* institution nor an admin, and answers 200 to its owning institution and to
\* every admin.
C22_UnpublishedVisibility ==
  \A c \in DOMAIN courses :
    ~IsPublic(courses[c]) =>
      /\ c \notin DOMAIN getPublishedCourses
      /\ \A who \in Requesters \cup ForgedTokens :
           IF who = courses[c].institution \/ who \in Admins
           THEN RouteGetCourse(c, who).status = 200
           ELSE RouteGetCourse(c, who) = NotFound

\* a review of course c that requester who may see whatever its status
MaySeeUnmoderated(c, who, r) ==
  who \in Admins \/ who = courses[c].institution \/ who = r.user

\* C23: no read that returns a course's reviews (course detail,
\* /:id/complete, the published listing, the institution's review list) hands
\* a review whose verificationStatus is not 'approved' to a requester who is
\* neither an admin nor the institution owning the course nor the review's
\* author.
C23_NoUnmoderatedDisclosure ==
  \A c \in DOMAIN courses :
    LET hidden(who, rs) ==
          \A k \in 1..Len(rs) :
            rs[k].verificationStatus # "approved" =>
              MaySeeUnmoderated(c, who, rs[k])
    IN /\ \A who \in Requesters \cup ForgedTokens :
            /\ hidden(who, RouteGetCourse(c, who).reviews)
            /\ hidden(who, getCourseComplete(c, who).reviews)
            /\ c \in DOMAIN getPublishedCourses =>
                 hidden(who, getPublishedCourses[c])
       /\ \A inst \in Institutions :
            \A e \in getInstitutionReviews(inst) :
              e._id[1] = c /\ e.verificationStatus # "approved" =>
                inst = courses[c].institution

\* C24: on the optional-auth reads (course detail, public institution
\* profile) a request whose token fails verification, whatever user its
\* payload names, gets exactly the response of a request without a token, and
\* that response holds only published courses, only approved reviews and no
\* contactPerson or owner subfields.
C24_InvalidTokenIsAnonymous ==
  /\ \A who \in InvalidTokens :
       /\ \A c \in CourseIds :
            RouteGetCourse(c, who) = RouteGetCourse(c, Anonymous)
       /\ \A c \in DOMAIN courses :
            GetCourseSecond(c, who) = GetCourseSecond(c, Anonymous)
       /\ \A id \in UserIds :
            getPublicInstitutionProfile(id, who)
              = getPublicInstitutionProfile(id, Anonymous)
  /\ \A c \in DOMAIN courses :
       LET shown == RouteGetCourse(c, Anonymous)
       IN /\ ~IsPublic(courses[c]) => shown = NotFound
          /\ \A k \in 1..Len(shown.reviews) :
               shown.reviews[k].verificationStatus = "approved"
  /\ \A id \in Institutions :
       LET profile == getPublicInstitutionProfile(id, Anonymous)
       IN /\ profile.status = 200
          /\ \A c \in profile.courses : IsPublic(courses[c])
          /\ ~profile.contactPerson
          /\ ~profile.owner

\* an unpublished course of i1 that holds an approved and a pending review:
\* the token forged in i1's name and the one forged in the admin's name are
\* refused like a request without a token
C24_Witness ==
  /\ "c1" \in DOMAIN courses
  /\ courses["c1"].institution = "i1"
  /\ ~IsPublic(courses["c1"])
  /\ \E j, k \in 1..Len(courses["c1"].reviews) :
       /\ courses["c1"].reviews[j].verificationStatus = "approved"
       /\ courses["c1"].reviews[k].verificationStatus = "pending"
  /\ RouteGetCourse("c1", "forged-i1") = NotFound
  /\ RouteGetCourse("c1", "i1").status = 200

\* the user documents signup can create in the current state
SignupOutcomes(email) ==
  {signupResult(email, adminCode, profileComplete, isEmailVerified, validUser) :
     adminCode \in AdminCodes,
     profileComplete \in BOOLEAN, isEmailVerified \in BOOLEAN,
     validUser \in BOOLEAN}

Created(email, out) == email \notin DOMAIN users /\ email \in DOMAIN out.users

\* C26: a user created by signup has isVerified TRUE when its role is
\* aspirant or admin and FALSE when its role is institution, and a stored
\* institution's isVerified turns TRUE only in a verifyInstitution step.
C26_VerifiedDefault ==
  /\ [](\A email \in Emails : \A out \in SignupOutcomes(email) :
          Created(email, out) =>
            out.users[email].isVerified = (RoleOf(email) # "institution"))
  /\ [][\A id \in DOMAIN users \cap DOMAIN users' :
          /\ users[id].role = "institution"
          /\ ~users[id].isVerified
          /\ users'[id].isVerified
          => users' = verifyInstitutionResult(id).users]_vars

\* the store holds an entry for email that verifyOTP has marked
Verified(store, email) == email \in DOMAIN store /\ store[email].verified

\* C28: signup creates a user only for an email whose current OTP entry, the
\* one written by the latest sendOTP, is marked verified; every signup that
\* passes the OTP check deletes the entry, whether or not it goes on to create
\* the user; verifyOTP marks an entry only when the code matches and the
\* entry has not expired; sendOTP writes an unverified entry over whatever was
\* there; and an entry becomes verified only in a verifyOTP step.
C28_OtpGatedSignup ==
  /\ [](\A email \in Emails :
          /\ \A out \in SignupOutcomes(email) :
               /\ Created(email, out) => Verified(otpStore, email)
               /\ out.res.kind # "Please verify your email before signing up"
                    => /\ Verified(otpStore, email)
                       /\ email \notin DOMAIN out.otpStore
          /\ \A otp \in Codes \cup {NoCode} :
               LET out == verifyOTPResult(email, otp)
               IN Verified(out.otpStore, email) /\ ~Verified(otpStore, email)
                    => /\ Sha256(otp) = otpStore[email].otp
                       /\ clock <= otpStore[email].expiresAt
          /\ \A otp \in Codes, emailSent \in BOOLEAN :
               LET out == sendOTPResult(email, otp, emailSent)
               IN out.res.status # 400
                    => /\ ~Verified(out.otpStore, email)
                       /\ out.otpStore[email].otp = Sha256(otp)
                       /\ out.otpStore[email].expiresAt = clock + OtpLifetime)
  /\ [][\A email \in Emails :
          /\ Verified(otpStore', email) /\ ~Verified(otpStore, email)
               => \E otp \in Codes :
                    /\ otpStore' = verifyOTPResult(email, otp).otpStore
                    /\ users' = users
          /\ email \in DOMAIN users' \ DOMAIN users
               => \E out \in SignupOutcomes(email) :
                    users' = out.users /\ otpStore' = out.otpStore]_vars

\* u1 has signed up and its OTP entry is gone, while the entry of the admin's
\* email is verified and a signup with a wrong admin code would consume it
C28_Witness ==
  /\ "u1" \in DOMAIN users
  /\ "u1" \notin DOMAIN otpStore
  /\ Verified(otpStore, "a1")
  /\ \E out \in SignupOutcomes("a1") :
       out.res.status = 401 /\ "a1" \notin DOMAIN out.otpStore
  /\ "i1" \in DOMAIN otpStore
  /\ otpStore["i1"].expiresAt < clock

\* C29: for an email whose user was created by a successful signup, sendOTP
\* answers 400 'Email already registered and verified', stores no OTP and
\* leaves the user document in place.
C29_SendOtpKeepsAccount ==
  \A email \in Emails \cap DOMAIN users :
    \A otp \in Codes, emailSent \in BOOLEAN :
      LET out == sendOTPResult(email, otp, emailSent)
      IN /\ out.res = Response(400, "Email already registered and verified")
         /\ out.otpStore = otpStore
         /\ out.users = users

\* C30: in every state of every course isPublished is TRUE exactly when
\* status is 'published': after creation, after an updateCourse with
\* isPublished sent as a boolean or as the string 'true' / 'false', and after
\* the admin's toggle.
C30_PublicationFlagsAgree ==
  \A c \in DOMAIN courses :
    courses[c].isPublished <=> courses[c].status = "published"
====
